---- MODULE Spec2Model ----
(***************************************************************************)
(* Whitespace-tolerant anchor location of helper.py: normalise,            *)
(* _map_norm_to_orig, _pick_best_occurrence and locate_anchor.             *)
(*                                                                         *)
(* A Python str is a sequence of characters.  Characters are the tokens    *)
(* of Chars; offsets, positions and slice bounds are 0-based as in the     *)
(* source, so character i of s (0-based) is s[i + 1].                      *)
(***************************************************************************)
EXTENDS Integers, Sequences, FiniteSets, TLC

VARIABLES text, marker, is_start, norm_text, renorm,
          char_map, orig_idx, norm_idx, result, pc

vars == <<text, marker, is_start, norm_text, renorm,
          char_map, orig_idx, norm_idx, result, pc>>

---------------------------------------------------------------------------
(* Bounds of the checked input spaces. *)

\* locate_anchor: largest combined length of the text and the marker
MaxTotalLen == 5
\* normalise: longest input string
MaxStrLen == 6
\* _map_norm_to_orig: longest original text
MaxOrigLen == 4
\* locate_anchor on long texts: longest text and longest marker
MaxLongTextLen == 6
MaxLongMarkerLen == 4
\* locate_anchor with the empty marker: longest text
MaxEmptyTextLen == 4

---------------------------------------------------------------------------
(* Characters.  "a" and "b" stand for the non-whitespace characters, SP    *)
(* for the space, TAB for any other non-newline whitespace, NL for "\n"    *)
(* and CR for "\r".                                                        *)

Chars == {"a", "b", "SP", "TAB", "NL", "CR"}

\* Characters of the texts and markers given to locate_anchor.
LocateChars == {"a", "b", "SP", "NL", "CR"}

\* Characters of the long texts and of their markers.
LongChars == {"a", "b", "NL"}

\* str.isspace() of one character; also the class \s of re and of strip()
isspace(ch) == ch \in {"SP", "TAB", "NL", "CR"}

\* All strings over S of length at most n.
StringsUpTo(S, n) == UNION {[1..k -> S] : k \in 0..n}

Min(S) == CHOOSE x \in S : \A y \in S : x <= y
Max(S) == CHOOSE x \in S : \A y \in S : x >= y

\* Python's s[a:b]: negative bounds count from the end, all bounds clamp.
PySlice(s, a, b) ==
    LET n  == Len(s)
        lo == IF a < 0 THEN Max({a + n, 0}) ELSE Min({a, n})
        hi == IF b < 0 THEN Max({b + n, 0}) ELSE Min({b, n})
    IN  IF lo >= hi THEN <<>> ELSE SubSeq(s, lo + 1, hi)

\* pat occurs in s starting at 0-based offset i
MatchAt(pat, s, i) ==
    /\ i >= 0
    /\ i + Len(pat) <= Len(s)
    /\ \A k \in 1..Len(pat) : s[i + k] = pat[k]

\* Every 0-based offset at which pat occurs in s, overlapping ones included.
Occurrences(pat, s) == {i \in 0..Len(s) : MatchAt(pat, s, i)}

HasNonSpace(s) == \E i \in 1..Len(s) : ~isspace(s[i])

---------------------------------------------------------------------------
(* normalise                                                               *)

\* re.sub(r"\r", "\n", text)
sub_cr(s) == [i \in 1..Len(s) |-> IF s[i] = "CR" THEN "NL" ELSE s[i]]

\* length of the run of newlines that starts at 1-based index i
RECURSIVE NewlineRun(_, _)
NewlineRun(s, i) ==
    IF i > Len(s) \/ s[i] # "NL" THEN 0 ELSE 1 + NewlineRun(s, i + 1)

\* the leftmost-greedy scan of re.sub(r"\n{3,}", "\n\n", .) from index i
RECURSIVE SubNewlinesFrom(_, _)
SubNewlinesFrom(s, i) ==
    IF i > Len(s) THEN <<>>
    ELSE LET r == NewlineRun(s, i)
         IN  IF r >= 3 THEN <<"NL", "NL">> \o SubNewlinesFrom(s, i + r)
             ELSE <<s[i]>> \o SubNewlinesFrom(s, i + 1)

\* re.sub(r"\n{3,}", "\n\n", text)
sub_newlines(s) == SubNewlinesFrom(s, 1)

\* length of the run of [^\S\n] characters that starts at 1-based index i
RECURSIVE BlankRun(_, _)
BlankRun(s, i) ==
    IF i > Len(s) \/ ~isspace(s[i]) \/ s[i] = "NL" THEN 0
    ELSE 1 + BlankRun(s, i + 1)

\* the leftmost-greedy scan of re.sub(r"[^\S\n]+", " ", .) from index i
RECURSIVE SubBlanksFrom(_, _)
SubBlanksFrom(s, i) ==
    IF i > Len(s) THEN <<>>
    ELSE LET r == BlankRun(s, i)
         IN  IF r >= 1 THEN <<"SP">> \o SubBlanksFrom(s, i + r)
             ELSE <<s[i]>> \o SubBlanksFrom(s, i + 1)

\* re.sub(r"[^\S\n]+", " ", text)
sub_blanks(s) == SubBlanksFrom(s, 1)

RECURSIVE lstrip(_)
lstrip(s) == IF s # <<>> /\ isspace(Head(s)) THEN lstrip(Tail(s)) ELSE s

RECURSIVE rstrip(_)
rstrip(s) ==
    IF s # <<>> /\ isspace(s[Len(s)]) THEN rstrip(SubSeq(s, 1, Len(s) - 1))
    ELSE s

\* str.strip()
strip(s) == rstrip(lstrip(s))

\* A normalise that returns without the final strip().
normalise_no_strip(s) == sub_blanks(sub_newlines(sub_cr(s)))

\* A normalise whose newline collapse runs before the carriage returns
\* are converted.
normalise_cr_late(s) == strip(sub_blanks(sub_cr(sub_newlines(s))))

normalise(s) == strip(sub_blanks(sub_newlines(sub_cr(s))))

---------------------------------------------------------------------------
(* Specification of normalise as a pure function: normalise is applied to  *)
(* an arbitrary string, and then to its own result.                        *)

NoResult == [offset |-> -1, length |-> 0, strategy |-> 0,
             variant |-> <<>>, raised |-> FALSE]

InitNormalise ==
    /\ text \in StringsUpTo(Chars, MaxStrLen)
    /\ marker = <<>>
    /\ is_start = TRUE
    /\ norm_text = <<>>
    /\ renorm = <<>>
    /\ char_map = <<>>
    /\ orig_idx = 0
    /\ norm_idx = 0
    /\ result = NoResult
    /\ pc = "normalise"

NormaliseOnce ==
    /\ pc = "normalise"
    /\ norm_text' = normalise(text)
    /\ pc' = "normalised"
    /\ UNCHANGED <<text, marker, is_start, renorm, char_map, orig_idx,
                   norm_idx, result>>

NormaliseTwice ==
    /\ pc = "normalised"
    /\ renorm' = normalise(norm_text)
    /\ pc' = "renormalised"
    /\ UNCHANGED <<text, marker, is_start, norm_text, char_map, orig_idx,
                   norm_idx, result>>

NextNormalise == NormaliseOnce \/ NormaliseTwice

SpecNormalise == InitNormalise /\ [][NextNormalise]_vars

---------------------------------------------------------------------------
(* _map_norm_to_orig                                                       *)

\* A while loop that skips nothing.
SkipNothing(original, i) == IF i >= Len(original) THEN Len(original) ELSE i

\* The while loop: the first 0-based index at or after i of a character of
\* original that is not whitespace, or Len(original) when the loop reads
\* past the end of original (IndexError).
RECURSIVE SkipSpace(_, _)
SkipSpace(original, i) ==
    IF i >= Len(original) THEN Len(original)
    ELSE IF isspace(original[i + 1]) THEN SkipSpace(original, i + 1)
    ELSE i

MapStart == [char_map |-> <<>>, orig_idx |-> 0, norm_idx |-> 0,
             raised |-> FALSE]

\* A loop body that records the cursor and leaves it where it is.
map_iteration_no_advance(original, normalised, st) ==
    IF isspace(normalised[st.norm_idx + 1])
    THEN [st EXCEPT !.norm_idx = @ + 1]
    ELSE LET j == SkipSpace(original, st.orig_idx)
         IN  IF j >= Len(original)
             THEN [st EXCEPT !.orig_idx = j, !.raised = TRUE]
             ELSE [char_map |-> st.char_map @@ (st.norm_idx :> j),
                   orig_idx |-> j,
                   norm_idx |-> st.norm_idx + 1,
                   raised   |-> FALSE]

\* One iteration of the for loop, for the character at norm_idx.
map_iteration(original, normalised, st) ==
    IF isspace(normalised[st.norm_idx + 1])
    THEN [st EXCEPT !.norm_idx = @ + 1]
    ELSE LET j == SkipSpace(original, st.orig_idx)
         IN  IF j >= Len(original)
             THEN [st EXCEPT !.orig_idx = j, !.raised = TRUE]
             ELSE [char_map |-> st.char_map @@ (st.norm_idx :> j),
                   orig_idx |-> j + 1,
                   norm_idx |-> st.norm_idx + 1,
                   raised   |-> FALSE]

RECURSIVE MapLoop(_, _, _)
MapLoop(original, normalised, st) ==
    IF st.raised \/ st.norm_idx >= Len(normalised) THEN st
    ELSE MapLoop(original, normalised,
                 map_iteration(original, normalised, st))

\* The whole call: .char_map is the returned dict, .raised an IndexError.
map_norm_to_orig(original, normalised) ==
    MapLoop(original, normalised, MapStart)

---------------------------------------------------------------------------
(* Specification of _map_norm_to_orig, one loop iteration per step, on a   *)
(* text and its own normalised view (locate_anchor's call).                *)

InitMap ==
    /\ text \in StringsUpTo(Chars, MaxOrigLen)
    /\ marker = <<>>
    /\ is_start = TRUE
    /\ norm_text = <<>>
    /\ renorm = <<>>
    /\ char_map = <<>>
    /\ orig_idx = 0
    /\ norm_idx = 0
    /\ result = NoResult
    /\ pc = "normalise"

MapCall ==
    /\ pc = "normalise"
    /\ norm_text' = normalise(text)
    /\ char_map' = MapStart.char_map
    /\ orig_idx' = MapStart.orig_idx
    /\ norm_idx' = MapStart.norm_idx
    /\ pc' = "loop"
    /\ UNCHANGED <<text, marker, is_start, renorm, result>>

MapIterate ==
    /\ pc = "loop"
    /\ norm_idx < Len(norm_text)
    /\ LET st == map_iteration(text, norm_text,
                     [char_map |-> char_map, orig_idx |-> orig_idx,
                      norm_idx |-> norm_idx, raised |-> FALSE])
       IN  /\ char_map' = st.char_map
           /\ orig_idx' = st.orig_idx
           /\ norm_idx' = st.norm_idx
           /\ pc' = IF st.raised THEN "IndexError" ELSE "loop"
    /\ UNCHANGED <<text, marker, is_start, norm_text, renorm, result>>

MapReturn ==
    /\ pc = "loop"
    /\ norm_idx >= Len(norm_text)
    /\ pc' = "returned"
    /\ UNCHANGED <<text, marker, is_start, norm_text, renorm, char_map,
                   orig_idx, norm_idx, result>>

NextMap == MapCall \/ MapIterate \/ MapReturn

SpecMap == InitMap /\ [][NextMap]_vars

---------------------------------------------------------------------------
(* re.finditer, str.rfind, str.split                                       *)

\* The scan of re.finditer(re.escape(pat), s) from 0-based offset pos: the
\* leftmost match at or after pos, then on from its end (one further after
\* an empty match), so the matches found never overlap.
RECURSIVE FindIterFrom(_, _, _)
FindIterFrom(pat, s, pos) ==
    IF pos > Len(s) THEN <<>>
    ELSE IF MatchAt(pat, s, pos)
         THEN <<pos>> \o FindIterFrom(pat, s,
                             IF Len(pat) = 0 THEN pos + 1 ELSE pos + Len(pat))
         ELSE FindIterFrom(pat, s, pos + 1)

\* [m.start() for m in re.finditer(re.escape(pat), s)]
finditer(pat, s) == FindIterFrom(pat, s, 0)

\* s.rfind(pat): the highest offset at which pat occurs in s, or -1
rfind(s, pat) ==
    IF Occurrences(pat, s) = {} THEN -1 ELSE Max(Occurrences(pat, s))

\* s.split("\n")
RECURSIVE split(_)
split(s) ==
    IF \A i \in 1..Len(s) : s[i] # "NL" THEN <<s>>
    ELSE LET i == Min({k \in 1..Len(s) : s[k] = "NL"})
         IN  <<SubSeq(s, 1, i - 1)>> \o split(SubSeq(s, i + 1, Len(s)))

\* Every line of the marker, the blank ones kept.
all_lines(mk) == split(mk)

\* [line for line in marker.split("\n") if line.strip()]
non_blank_lines(mk) == SelectSeq(split(mk), LAMBDA line : strip(line) # <<>>)

---------------------------------------------------------------------------
(* _pick_best_occurrence                                                   *)

\* A selector without the blank-line test.
pick_first_occurrence(positions, ntext, anchor_len) == positions[1]

pick_best_occurrence(positions, ntext, anchor_len) ==
    LET followed == {k \in 1..Len(positions) :
                       PySlice(ntext, positions[k] + anchor_len,
                               positions[k] + anchor_len + 2) = <<"NL", "NL">>}
    IN  IF followed # {} THEN positions[Min(followed)] ELSE positions[1]

---------------------------------------------------------------------------
(* locate_anchor                                                           *)

\* return position, length: by which strategy, and for which normalised
\* marker variant
Return(position, length, strat, variant) ==
    [offset |-> position, length |-> length, strategy |-> strat,
     variant |-> variant, raised |-> FALSE]

\* return -1, 0
NotFound == Return(-1, 0, 0, <<>>)

\* Strategy 1, the full normalised match; strategy 0 in the value means
\* that the code falls through to Strategy 2.
strategy1(txt, mk, start, ntext, cmap) ==
    LET norm_marker == normalise(mk)
    IN  IF start
        THEN LET positions == finditer(norm_marker, ntext)
             IN  IF positions # <<>>
                 THEN LET best_idx == pick_best_occurrence(
                                          positions, ntext, Len(norm_marker))
                      IN  IF best_idx \in DOMAIN cmap
                          THEN Return(cmap[best_idx], Len(mk), 1, norm_marker)
                          ELSE NoResult
                 ELSE NoResult
        ELSE LET idx == rfind(ntext, norm_marker)
             IN  IF idx # -1 /\ idx \in DOMAIN cmap
                 THEN Return(cmap[idx], Len(mk), 1, norm_marker)
                 ELSE NoResult

\* A fallback that always reduces the marker to its last non-blank line.
strategy2_last_line(txt, mk, start, ntext, cmap) ==
    LET lines == non_blank_lines(mk)
    IN  IF lines = <<>> THEN NotFound
        ELSE LET line_marker == normalise(lines[Len(lines)])
                 positions == finditer(line_marker, ntext)
             IN  IF positions = <<>> THEN NotFound
                 ELSE LET best_idx ==
                            IF start
                            THEN pick_best_occurrence(
                                     positions, ntext, Len(line_marker))
                            ELSE positions[Len(positions)]
                      IN  IF best_idx \notin DOMAIN cmap THEN NotFound
                          ELSE Return(cmap[best_idx], Len(line_marker), 2,
                                      line_marker)

\* Strategy 2, the single-line fallback.
strategy2(txt, mk, start, ntext, cmap) ==
    LET lines == non_blank_lines(mk)
    IN  IF lines = <<>> THEN NotFound
        ELSE LET line_marker ==
                     normalise(IF start THEN lines[1] ELSE lines[Len(lines)])
                 positions == finditer(line_marker, ntext)
             IN  IF positions = <<>> THEN NotFound
                 ELSE LET best_idx ==
                            IF start
                            THEN pick_best_occurrence(
                                     positions, ntext, Len(line_marker))
                            ELSE positions[Len(positions)]
                      IN  IF best_idx \notin DOMAIN cmap THEN NotFound
                          ELSE Return(cmap[best_idx], Len(line_marker), 2,
                                      line_marker)

\* The call up to the end of Strategy 1: both strings are normalised, the
\* position map is built, and Strategy 1 returns or falls through.
Strategy1 ==
    /\ pc = "strategy1"
    /\ LET ntext == normalise(text)
           m     == map_norm_to_orig(text, ntext)
       IN  /\ norm_text' = ntext
           /\ char_map' = m.char_map
           /\ orig_idx' = m.orig_idx
           /\ norm_idx' = m.norm_idx
           /\ IF m.raised
              THEN /\ result' = [NoResult EXCEPT !.raised = TRUE]
                   /\ pc' = "IndexError"
              ELSE /\ result' = strategy1(text, marker, is_start, ntext,
                                          m.char_map)
                   /\ pc' = IF result'.strategy = 1 THEN "done"
                            ELSE "strategy2"
    /\ UNCHANGED <<text, marker, is_start, renorm>>

\* The rest of the call, reached only when Strategy 1 did not return.
Strategy2 ==
    /\ pc = "strategy2"
    /\ result' = strategy2(text, marker, is_start, norm_text, char_map)
    /\ pc' = "done"
    /\ UNCHANGED <<text, marker, is_start, norm_text, renorm, char_map,
                   orig_idx, norm_idx>>

Next == Strategy1 \/ Strategy2

\* the locals before the call's first statement
InitLocals ==
    /\ norm_text = <<>>
    /\ renorm = <<>>
    /\ char_map = <<>>
    /\ orig_idx = 0
    /\ norm_idx = 0
    /\ result = NoResult
    /\ pc = "strategy1"

\* locate_anchor on every text, marker and is_start within the bound
Init ==
    /\ text \in StringsUpTo(LocateChars, MaxTotalLen)
    /\ marker \in StringsUpTo(LocateChars, MaxTotalLen - Len(text))
    /\ is_start \in BOOLEAN
    /\ InitLocals

Spec == Init /\ [][Next]_vars

\* locate_anchor with the empty marker, on longer texts
InitEmptyMarker ==
    /\ text \in StringsUpTo(Chars, MaxEmptyTextLen)
    /\ marker = <<>>
    /\ is_start \in BOOLEAN
    /\ InitLocals

SpecEmptyMarker == InitEmptyMarker /\ [][Next]_vars

\* An anchor phrase as it is written: it holds a non-whitespace character
\* and neither starts nor ends with whitespace.
AnchorPhrases(S, n) ==
    {mk \in StringsUpTo(S, n) : mk # <<>> /\ strip(mk) = mk}

\* locate_anchor on an anchor phrase and a text long enough to hold runs
\* of newlines between words, and occurrences of the phrase that overlap
\* ahead of a blank line
InitLong ==
    /\ text \in StringsUpTo(LongChars, MaxLongTextLen)
    /\ marker \in AnchorPhrases(LongChars, MaxLongMarkerLen)
    /\ is_start \in BOOLEAN
    /\ InitLocals

SpecLong == InitLong /\ [][Next]_vars

---------------------------------------------------------------------------
(* Vocabulary of the properties.                                           *)

Range(s) == {s[i] : i \in 1..Len(s)}

Occurs(pat, s) == Occurrences(pat, s) # {}

\* the call has ended, by a return or by an exception
Returned == pc \in {"done", "IndexError"}

NormMarker == normalise(marker)

\* the lines of the marker that hold a non-whitespace character
MarkerLines == SelectSeq(split(marker), LAMBDA line : HasNonSpace(line))

\* the normalised first (start anchor) or last (end anchor) such line
MarkerLine ==
    normalise(IF is_start THEN MarkerLines[1]
              ELSE MarkerLines[Len(MarkerLines)])

\* 0-based index of the first non-whitespace character of s
FirstNonSpace(s) == Min({i \in 0..(Len(s) - 1) : ~isspace(s[i + 1])})

BlankLine == <<"NL", "NL">>

---------------------------------------------------------------------------
(* normalise: C5, C8                                                       *)

\* C5: normalise is idempotent: normalising a normalised string, whatever
\* string it came from, gives it back unchanged.
NormaliseIdempotent == pc = "renormalised" => renorm = norm_text

\* A string with a carriage return and a tab that normalise changed has
\* been normalised twice.
NormaliseIdempotentWitness ==
    /\ pc = "renormalised"
    /\ {"CR", "TAB"} \subseteq Range(text)
    /\ Len(norm_text) >= 3
    /\ Len(norm_text) < Len(text)
    /\ renorm = norm_text

\* C8: a normalised view holds no carriage return, no run of three or more
\* newlines, no run of two or more non-newline whitespace characters, no
\* non-newline whitespace other than the single space, and no leading or
\* trailing whitespace.
NormalisedViewInvariant ==
    pc \in {"normalised", "renormalised"} =>
        /\ "CR" \notin Range(norm_text)
        /\ ~Occurs(<<"NL", "NL", "NL">>, norm_text)
        /\ \A i \in 1..Len(norm_text) :
               isspace(norm_text[i]) => norm_text[i] \in {"NL", "SP"}
        /\ ~Occurs(<<"SP", "SP">>, norm_text)
        /\ norm_text # <<>> =>
               /\ ~isspace(norm_text[1])
               /\ ~isspace(norm_text[Len(norm_text)])

\* A string whose carriage return and newlines make a run of three, and
\* which holds a tab, has been normalised to a view with a blank line and
\* a space.
NormalisedViewWitness ==
    /\ pc = "normalised"
    /\ {"CR", "TAB"} \subseteq Range(text)
    /\ Occurs(<<"NL", "NL", "NL">>, sub_cr(text))
    /\ Occurs(BlankLine, norm_text)
    /\ "SP" \in Range(norm_text)

---------------------------------------------------------------------------
(* _map_norm_to_orig: C10                                                  *)

\* C10: on a text and its own normalised view the mapping loop never reads
\* past the end of the text, and after every iteration, and at the return,
\* the keys recorded so far are exactly the indices of the non-whitespace
\* characters of the view passed so far (of the whole view at the return),
\* the values increase strictly with the key, and each value is the index
\* of a non-whitespace character of the text equal to the view's character
\* at the key.
PositionMapInvariant ==
    /\ pc # "IndexError"
    /\ pc \in {"loop", "returned"} =>
        /\ DOMAIN char_map =
               {n \in 0..(norm_idx - 1) : ~isspace(norm_text[n + 1])}
        /\ pc = "returned" => norm_idx = Len(norm_text)
        /\ \A m, n \in DOMAIN char_map : m < n => char_map[m] < char_map[n]
        /\ \A n \in DOMAIN char_map :
               /\ 0 <= char_map[n]
               /\ char_map[n] < Len(text)
               /\ ~isspace(text[char_map[n] + 1])
               /\ text[char_map[n] + 1] = norm_text[n + 1]

\* The loop has returned a map of two or more keys, one of them mapped to
\* an index other than itself.
PositionMapWitness ==
    /\ pc = "returned"
    /\ Cardinality(DOMAIN char_map) >= 2
    /\ \E n \in DOMAIN char_map : char_map[n] # n

---------------------------------------------------------------------------
(* locate_anchor: C1, C2, C3, C4, C6, C7, C9                               *)

\* C1: round trip.  For a start anchor, a text that is not whitespace-only
\* and a marker whose normalised form occurs in the normalised text, the
\* call returns (o, length) with normalise(text[o : o + length]) equal to
\* normalise(marker).
RoundTripOffsetValidity ==
    (/\ Returned
     /\ is_start
     /\ HasNonSpace(text)
     /\ Occurs(NormMarker, normalise(text)))
    => /\ ~result.raised
       /\ normalise(PySlice(text, result.offset,
                            result.offset + result.length)) = NormMarker

\* C2: when neither the normalised marker nor the normalised first (start)
\* or last (end) non-blank line of the marker occurs in the normalised
\* text, the call returns exactly (-1, 0); no call raises; and a returned
\* offset of -1 always comes with length 0.
NotFoundSentinel ==
    Returned =>
        /\ ~result.raised
        /\ pc = "done"
        /\ (/\ ~Occurs(NormMarker, normalise(text))
            /\ (MarkerLines = <<>> \/ ~Occurs(MarkerLine, normalise(text))))
           => (result.offset = -1 /\ result.length = 0)
        /\ result.offset = -1 => result.length = 0

\* A marker of two non-blank lines was looked for in a text with
\* characters of its own, and neither strategy found it.
NotFoundWitness ==
    /\ pc = "done"
    /\ HasNonSpace(text)
    /\ Len(MarkerLines) >= 2
    /\ ~Occurs(NormMarker, norm_text)
    /\ ~Occurs(MarkerLine, norm_text)
    /\ result.offset = -1
    /\ result.length = 0

\* the occurrence C3 describes: over all starting offsets of pat in ntext,
\* the first one followed by a blank line, or else the first one
FirstFollowedByBlankLine(pat, ntext) ==
    LET followed == {p \in Occurrences(pat, ntext) :
                       PySlice(ntext, p + Len(pat), p + Len(pat) + 2)
                           = BlankLine}
    IN  IF followed # {} THEN Min(followed)
        ELSE Min(Occurrences(pat, ntext))

\* C3: for a start anchor whose non-empty normalised marker occurs in the
\* normalised text, the returned offset is the original position of the
\* first occurrence, over all starting offsets (overlapping occurrences
\* included), that is followed by a blank line, or of the first occurrence
\* when none is.
StartAnchorBlankLineChoice ==
    (/\ Returned
     /\ is_start
     /\ NormMarker # <<>>
     /\ Occurs(NormMarker, norm_text))
    => /\ ~result.raised
       /\ FirstFollowedByBlankLine(NormMarker, norm_text) \in DOMAIN char_map
       /\ result.offset =
              char_map[FirstFollowedByBlankLine(NormMarker, norm_text)]

\* C4: for an end anchor that is found, the returned offset is the
\* original position of the last starting offset, over all of them
\* (overlapping occurrences included), at which the matched marker variant
\* occurs in the normalised text.
EndAnchorLastOccurrence ==
    (/\ Returned
     /\ ~is_start
     /\ result.offset # -1)
    => /\ Occurs(result.variant, norm_text)
       /\ Max(Occurrences(result.variant, norm_text)) \in DOMAIN char_map
       /\ result.offset =
              char_map[Max(Occurrences(result.variant, norm_text))]

\* C6 as stated: a returned offset other than -1 is an index of the
\* original text, of a non-whitespace character, and that character is the
\* first character of the normalised marker variant that was matched.
OffsetIsFirstCharOfVariant ==
    (Returned /\ result.offset # -1)
    => /\ 0 <= result.offset
       /\ result.offset < Len(text)
       /\ ~isspace(text[result.offset + 1])
       /\ result.variant # <<>>
       /\ text[result.offset + 1] = result.variant[1]

\* C6, amended: a returned offset other than -1 is an index of the
\* original text, of a non-whitespace character, and, when the normalised
\* marker variant that was matched is not empty, that character is the
\* variant's first character.
OffsetInOriginalText ==
    (Returned /\ result.offset # -1)
    => /\ 0 <= result.offset
       /\ result.offset < Len(text)
       /\ ~isspace(text[result.offset + 1])
       /\ result.variant = IF result.strategy = 1 THEN NormMarker
                           ELSE MarkerLine
       /\ result.variant # <<>> =>
              text[result.offset + 1] = result.variant[1]

\* A non-empty marker variant was found at an original position that is
\* not the position of the match in the normalised view.
OffsetInOriginalTextWitness ==
    /\ pc = "done"
    /\ result.offset > 0
    /\ result.variant # <<>>
    /\ \E n \in DOMAIN char_map :
           /\ char_map[n] = result.offset
           /\ n # result.offset
           /\ MatchAt(result.variant, norm_text, n)
           /\ ~MatchAt(result.variant, norm_text, result.offset)

\* C7 as stated: for a text with a non-whitespace character, the empty
\* marker as a start anchor is located at (0, 0), without an exception.
EmptyMarkerAtZero ==
    (/\ Returned
     /\ marker = <<>>
     /\ is_start
     /\ HasNonSpace(text))
    => /\ ~result.raised
       /\ result.offset = 0
       /\ result.length = 0

\* C7, amended: for a text with a non-whitespace character, the empty
\* marker as a start anchor raises nothing and is returned with length 0,
\* at the position of the text's first non-whitespace character when the
\* normalised text holds no blank line, and as not found (-1) when it
\* holds one.
EmptyMarkerDefined ==
    (/\ Returned
     /\ marker = <<>>
     /\ is_start
     /\ HasNonSpace(text))
    => /\ ~result.raised
       /\ result.length = 0
       /\ result.offset = IF Occurs(BlankLine, normalise(text)) THEN -1
                          ELSE FirstNonSpace(text)

\* The empty marker was looked for as a start anchor in a text whose
\* normalised view holds a blank line, and was not found.
EmptyMarkerWitness ==
    /\ pc = "done"
    /\ marker = <<>>
    /\ is_start
    /\ HasNonSpace(text)
    /\ Occurs(BlankLine, norm_text)
    /\ result.offset = -1

====
